---- MODULE Spec2Model ----
(***************************************************************************)
(* Blocking I2C API (src/blocking/i2c.rs).                                 *)
(*                                                                         *)
(* The module holds five capability traits (Read, Write, WriteIter,        *)
(* WriteRead, WriteIterRead), the bus-event contract each method documents *)
(* and the forwarding implementations for `&mut T`.                        *)
(*                                                                         *)
(* The model runs an implementor T that follows the documented event       *)
(* diagrams one bus event at a time against a nondeterministic slave, and  *)
(* a caller that reaches T either directly or through `&mut T`.            *)
(***************************************************************************)
EXTENDS Integers, Sequences, FiniteSets, TLC

VARIABLES
    build,        \* the configuration the crate was compiled with
    phase,        \* caller position: "idle", "busy", "returned"
    call,         \* the call the caller made (on T or on &mut T)
    invocations,  \* the calls T itself received during the current call
    impl,         \* T executing the call it received
    direct,       \* T executing the caller's call as if invoked directly
    twin,         \* T executing the buffer counterpart of an iterator call
    ret,          \* what the caller got back
    calls,        \* scenario driver: calls completed so far
    script,       \* scenario driver: the arguments it uses
    session       \* scenario driver: bus events of the completed calls

vars == <<build, phase, call, invocations, impl, direct, twin, ret, calls,
          script, session>>

-----------------------------------------------------------------------------
(* Bounds of the model *)

MaxBytes == 2      \* longest outgoing sequence (M)
MaxBuffer == 2     \* longest incoming buffer (L)

\* u8 addresses: both ends of the 7-bit range and one value outside it
Addresses == {0, 80, 127, 200}
\* outgoing bytes the caller uses (0xA0, 0x01)
OutBytes == {160, 1}
\* bytes the slave may transmit
SlaveBytes == {17, 34}

RECURSIVE SeqsUpTo(_, _)
SeqsUpTo(S, n) ==
    IF n = 0 THEN {<<>>}
    ELSE LET shorter == SeqsUpTo(S, n - 1)
         IN  shorter \cup {Append(s, x) : s \in {t \in shorter : Len(t) = n - 1}, x \in S}

Payloads == SeqsUpTo(OutBytes, MaxBytes)
BufferLens == 0 .. MaxBuffer

-----------------------------------------------------------------------------
(* Capabilities and build configuration *)

Capabilities == {"Read", "Write", "WriteIter", "WriteRead", "WriteIterRead"}
IterCapabilities == {"WriteIter", "WriteIterRead"}

\* `feature` is cfg(feature = "unproven"), `flag` is the bare cfg(unproven).
\* A build with the flag and without the feature does not compile: the
\* forwarding impl would name a trait that is not there.
Builds == {b \in [feature : BOOLEAN, flag : BOOLEAN] : b.flag => b.feature}

\* The trait declarations: Read, Write and WriteRead are unconditional,
\* WriteIter and WriteIterRead are under #[cfg(feature = "unproven")].
TraitExists(c) ==
    CASE c = "Read" -> TRUE
      [] c = "Write" -> TRUE
      [] c = "WriteRead" -> TRUE
      [] c = "WriteIter" -> build.feature
      [] c = "WriteIterRead" -> build.feature

\* The `impl ... for &mut T` items: the one for WriteIter is under
\* #[cfg(feature = "unproven")], the one for WriteIterRead under
\* #[cfg(unproven)].
RefImplExists(c) ==
    CASE c = "Read" -> TRUE
      [] c = "Write" -> TRUE
      [] c = "WriteRead" -> TRUE
      [] c = "WriteIter" -> build.feature
      [] c = "WriteIterRead" -> build.flag

-----------------------------------------------------------------------------
(* Bus events *)

Ev(kind, val) == <<kind, val>>

ST == Ev("ST", 0)
SR == Ev("SR", 0)
SP == Ev("SP", 0)
SAK == Ev("SAK", 0)
NSAK == Ev("NSAK", 0)
MAK == Ev("MAK", 0)
NMAK == Ev("NMAK", 0)
SADW(a) == Ev("SAD+W", a)
SADR(a) == Ev("SAD+R", a)
Out(b) == Ev("O", b)
In(b) == Ev("I", b)

\* what the bus or the slave does at one step. The diagrams show the
\* acknowledged transfer, which ends in Ok(()); a slave that does not
\* acknowledge, or a fault on the bus, ends the call in Err(e), and the source
\* documents no event after that.
Responses == {"ok", "nack", "fault"}

-----------------------------------------------------------------------------
(* The implementor T: one record per call in progress *)

Idle ==
    [op |-> "none", pc |-> "done", address |-> 0, bytes |-> <<>>, iter |-> <<>>,
     pulled |-> <<>>, i |-> 0, buffer |-> <<>>, n |-> 0, trace |-> <<>>,
     result |-> "none"]

\* T entered with the arguments of a call. The buffer variants index the
\* slice `bytes`; the iterator variants own an iterator over the same items.
Enter(op, address, bytes, len) ==
    [op |-> op, pc |-> "ST", address |-> address,
     bytes |-> IF op \in IterCapabilities THEN <<>> ELSE bytes,
     iter |-> IF op \in IterCapabilities THEN bytes ELSE <<>>,
     pulled |-> <<>>, i |-> 0,
     buffer |-> [k \in 1 .. len |-> 0], n |-> 0,   \* 0 is sent by no slave here
     trace |-> <<>>, result |-> "pending"]

Emit(m, ev, pc) == [m EXCEPT !.trace = Append(@, ev), !.pc = pc]

\* a failure reported as success
Fail_Swallowed(m, e) == [m EXCEPT !.pc = "done", !.result = "Ok"]

\* Err(e): the call ends, nothing more is driven on the bus by the contract
Fail(m, e) == [m EXCEPT !.pc = "done", !.result = e]

Start(m) == Emit(m, ST, "SADW")
StartRead(m) == Emit(m, ST, "SADR")
AddressWrite(m) == Emit(m, SADW(m.address), "SAKW")
AddressRead(m) == Emit(m, SADR(m.address), "SAKR")
\* the two phases as two transactions: stop, then a fresh start
RepeatedStart_StopStart(m) == Emit(Emit(m, SP, "SADR"), ST, "SADR")

RepeatedStart(m) == Emit(m, SR, "SADR")

\* a missing acknowledge that is not looked at
SlaveAck_Ignored(m, resp, next, e) ==
    IF resp = "nack" THEN Emit(m, NSAK, next) ELSE Emit(m, SAK, next)

\* the slave acknowledges (SAK) or does not
SlaveAck(m, resp, next, e) ==
    IF resp = "nack" THEN Fail(Emit(m, NSAK, "done"), e) ELSE Emit(m, SAK, next)

\* Bi of a slice: the next byte of `bytes`
SendByte(m) == [Emit(m, Out(m.bytes[m.i + 1]), "SAKO") EXCEPT !.i = @ + 1]
MoreBytes(m) == m.i < Len(m.bytes)

\* Bi of an iterator: the item `next()` yields
SendNext(m) ==
    [Emit(m, Out(Head(m.iter)), "SAKO") EXCEPT
        !.iter = Tail(@), !.pulled = Append(@, Head(m.iter))]
\* the last item is left in the iterator
MoreItems_StopsEarly(m) == Len(m.iter) > 1
MoreItems(m) == m.iter # <<>>

\* the slave transmits Bi and the master stores it in the buffer
ReceiveByte(m, d) ==
    [Emit(m, In(d), "MACK") EXCEPT !.buffer[m.n + 1] = d, !.n = @ + 1]

\* every byte acknowledged, the last one too
MasterAck_AlwaysAck(m) ==
    IF m.n < Len(m.buffer) THEN Emit(m, MAK, "IN") ELSE Emit(m, MAK, "SP")

\* MAK after every byte but the last, NMAK after the last
MasterAck(m) ==
    IF m.n < Len(m.buffer) THEN Emit(m, MAK, "IN") ELSE Emit(m, NMAK, "SP")

\* a no-acknowledge sent before every stop, bytes or no bytes
ReadPhase_AlwaysNmak(m) == IF Len(m.buffer) = 0 THEN "MACK" ELSE "IN"

\* after SAD+R is acknowledged: the data phase, or none for an empty buffer
ReadPhase(m) == IF Len(m.buffer) = 0 THEN "SP" ELSE "IN"

\* success reported with the bus still held
Stop_Held(m) == [m EXCEPT !.pc = "done", !.result = "Ok"]

Stop(m) == [Emit(m, SP, "done") EXCEPT !.result = "Ok"]

\* Read::read
\*   Master: ST SAD+R        MAK    MAK ...    NMAK SP
\*   Slave:           SAK B0     B1     ... BN
ReadStep(m, resp, d) ==
    CASE resp = "fault" -> Fail(m, "BusFault")
      [] resp # "fault" /\ m.pc = "ST" -> StartRead(m)
      [] resp # "fault" /\ m.pc = "SADR" -> AddressRead(m)
      [] resp # "fault" /\ m.pc = "SAKR" -> SlaveAck(m, resp, ReadPhase(m), "AddressNack")
      [] resp # "fault" /\ m.pc = "IN" -> ReceiveByte(m, d)
      [] resp # "fault" /\ m.pc = "MACK" -> MasterAck(m)
      [] resp # "fault" /\ m.pc = "SP" -> Stop(m)

\* Write::write
\*   Master: ST SAD+W     B0     B1     ... BN     SP
\*   Slave:           SAK    SAK    SAK ...    SAK
WriteStep(m, resp, d) ==
    CASE resp = "fault" -> Fail(m, "BusFault")
      [] resp # "fault" /\ m.pc = "ST" -> Start(m)
      [] resp # "fault" /\ m.pc = "SADW" -> AddressWrite(m)
      [] resp # "fault" /\ m.pc = "SAKW" ->
            SlaveAck(m, resp, IF MoreBytes(m) THEN "OUT" ELSE "SP", "AddressNack")
      [] resp # "fault" /\ m.pc = "OUT" -> SendByte(m)
      [] resp # "fault" /\ m.pc = "SAKO" ->
            SlaveAck(m, resp, IF MoreBytes(m) THEN "OUT" ELSE "SP", "DataNack")
      [] resp # "fault" /\ m.pc = "SP" -> Stop(m)

\* WriteIter::write: "Same as Write", the bytes drawn from the iterator
WriteIterStep(m, resp, d) ==
    CASE resp = "fault" -> Fail(m, "BusFault")
      [] resp # "fault" /\ m.pc = "ST" -> Start(m)
      [] resp # "fault" /\ m.pc = "SADW" -> AddressWrite(m)
      [] resp # "fault" /\ m.pc = "SAKW" ->
            SlaveAck(m, resp, IF MoreItems(m) THEN "OUT" ELSE "SP", "AddressNack")
      [] resp # "fault" /\ m.pc = "OUT" -> SendNext(m)
      [] resp # "fault" /\ m.pc = "SAKO" ->
            SlaveAck(m, resp, IF MoreItems(m) THEN "OUT" ELSE "SP", "DataNack")
      [] resp # "fault" /\ m.pc = "SP" -> Stop(m)

\* WriteRead::write_read
\*   Master: ST SAD+W     O0     O1     ... OM     SR SAD+R        MAK    MAK ...    NMAK SP
\*   Slave:           SAK    SAK    SAK ...    SAK          SAK I0     I1     ... IN
WriteReadStep(m, resp, d) ==
    CASE resp = "fault" -> Fail(m, "BusFault")
      [] resp # "fault" /\ m.pc = "ST" -> Start(m)
      [] resp # "fault" /\ m.pc = "SADW" -> AddressWrite(m)
      [] resp # "fault" /\ m.pc = "SAKW" ->
            SlaveAck(m, resp, IF MoreBytes(m) THEN "OUT" ELSE "SR", "AddressNack")
      [] resp # "fault" /\ m.pc = "OUT" -> SendByte(m)
      [] resp # "fault" /\ m.pc = "SAKO" ->
            SlaveAck(m, resp, IF MoreBytes(m) THEN "OUT" ELSE "SR", "DataNack")
      [] resp # "fault" /\ m.pc = "SR" -> RepeatedStart(m)
      [] resp # "fault" /\ m.pc = "SADR" -> AddressRead(m)
      [] resp # "fault" /\ m.pc = "SAKR" -> SlaveAck(m, resp, ReadPhase(m), "AddressNack")
      [] resp # "fault" /\ m.pc = "IN" -> ReceiveByte(m, d)
      [] resp # "fault" /\ m.pc = "MACK" -> MasterAck(m)
      [] resp # "fault" /\ m.pc = "SP" -> Stop(m)

\* WriteIterRead::write_iter_read: "Same as the WriteRead trait"
WriteIterReadStep(m, resp, d) ==
    CASE resp = "fault" -> Fail(m, "BusFault")
      [] resp # "fault" /\ m.pc = "ST" -> Start(m)
      [] resp # "fault" /\ m.pc = "SADW" -> AddressWrite(m)
      [] resp # "fault" /\ m.pc = "SAKW" ->
            SlaveAck(m, resp, IF MoreItems(m) THEN "OUT" ELSE "SR", "AddressNack")
      [] resp # "fault" /\ m.pc = "OUT" -> SendNext(m)
      [] resp # "fault" /\ m.pc = "SAKO" ->
            SlaveAck(m, resp, IF MoreItems(m) THEN "OUT" ELSE "SR", "DataNack")
      [] resp # "fault" /\ m.pc = "SR" -> RepeatedStart(m)
      [] resp # "fault" /\ m.pc = "SADR" -> AddressRead(m)
      [] resp # "fault" /\ m.pc = "SAKR" -> SlaveAck(m, resp, ReadPhase(m), "AddressNack")
      [] resp # "fault" /\ m.pc = "IN" -> ReceiveByte(m, d)
      [] resp # "fault" /\ m.pc = "MACK" -> MasterAck(m)
      [] resp # "fault" /\ m.pc = "SP" -> Stop(m)

\* one bus event of whatever call T is executing; a finished T does nothing
Advance(m, resp, d) ==
    IF m.pc = "done" THEN m
    ELSE CASE m.op = "Read" -> ReadStep(m, resp, d)
           [] m.op = "Write" -> WriteStep(m, resp, d)
           [] m.op = "WriteIter" -> WriteIterStep(m, resp, d)
           [] m.op = "WriteRead" -> WriteReadStep(m, resp, d)
           [] m.op = "WriteIterRead" -> WriteIterReadStep(m, resp, d)

-----------------------------------------------------------------------------
(* The caller *)

NoCall == [op |-> "none", via |-> "none", address |-> 0, bytes |-> <<>>, len |-> 0]
NoRet == [result |-> "none", buffer |-> <<>>]
NoScript == [variant |-> "none", address |-> 0, bytes |-> <<>>, len |-> 0]

Args(op, address, bytes, len) ==
    [op |-> op, address |-> address, bytes |-> bytes, len |-> len]

\* the buffer counterpart of an iterator capability
Counterpart(op) ==
    CASE op = "WriteIter" -> "Write"
      [] op = "WriteIterRead" -> "WriteRead"

\* the caller makes a call; `direct` is the same call made on T itself and
\* `twin` the buffer form of an iterator call
Begin(op, via, address, bytes, len) ==
    /\ phase = "idle"
    /\ script = NoScript
    /\ phase' = "busy"
    /\ call' = [op |-> op, via |-> via, address |-> address, bytes |-> bytes, len |-> len]
    /\ direct' = Enter(op, address, bytes, len)
    /\ twin' = IF op \in IterCapabilities
               THEN Enter(Counterpart(op), address, bytes, len)
               ELSE Idle
    /\ ret' = NoRet
    /\ UNCHANGED <<build, calls, script, session>>

\* a call made on the implementor itself
CallDirect(op, address, bytes, len) ==
    /\ TraitExists(op)
    /\ Begin(op, "direct", address, bytes, len)
    /\ invocations' = <<Args(op, address, bytes, len)>>
    /\ impl' = Enter(op, address, bytes, len)

\* the address cut to 7 bits on the way through
RefRead_Masked(address, len) ==
    /\ RefImplExists("Read")
    /\ Begin("Read", "borrow", address, <<>>, len)
    /\ invocations' = <<Args("Read", address % 128, <<>>, len)>>
    /\ impl' = Enter("Read", address % 128, <<>>, len)

\* impl<T: Read> Read for &mut T:  (*self).read(address, buffer)
RefRead(address, len) ==
    /\ RefImplExists("Read")
    /\ Begin("Read", "borrow", address, <<>>, len)
    /\ invocations' = <<Args("Read", address, <<>>, len)>>
    /\ impl' = Enter("Read", address, <<>>, len)

\* impl<T: Write> Write for &mut T:  (*self).write(addr, bytes)
RefWrite(addr, bytes) ==
    /\ RefImplExists("Write")
    /\ Begin("Write", "borrow", addr, bytes, 0)
    /\ invocations' = <<Args("Write", addr, bytes, 0)>>
    /\ impl' = Enter("Write", addr, bytes, 0)

\* impl<T: WriteIter> WriteIter for &mut T:  (*self).write(addr, bytes)
RefWriteIter(addr, bytes) ==
    /\ RefImplExists("WriteIter")
    /\ Begin("WriteIter", "borrow", addr, bytes, 0)
    /\ invocations' = <<Args("WriteIter", addr, bytes, 0)>>
    /\ impl' = Enter("WriteIter", addr, bytes, 0)

\* impl<T: WriteRead> WriteRead for &mut T:  (*self).write_read(address, bytes, buffer)
RefWriteRead(address, bytes, len) ==
    /\ RefImplExists("WriteRead")
    /\ Begin("WriteRead", "borrow", address, bytes, len)
    /\ invocations' = <<Args("WriteRead", address, bytes, len)>>
    /\ impl' = Enter("WriteRead", address, bytes, len)

\* impl<T: WriteIterRead> WriteIterRead for &mut T:
\*   (*self).write_iter_read(address, bytes, buffer)
RefWriteIterRead(address, bytes, len) ==
    /\ RefImplExists("WriteIterRead")
    /\ Begin("WriteIterRead", "borrow", address, bytes, len)
    /\ invocations' = <<Args("WriteIterRead", address, bytes, len)>>
    /\ impl' = Enter("WriteIterRead", address, bytes, len)

\* one event on the bus: the slave's answer is the same whichever way T was
\* reached
Step ==
    /\ phase = "busy"
    /\ impl.pc # "done" \/ direct.pc # "done" \/ twin.pc # "done"
    /\ \E resp \in Responses, d \in SlaveBytes :
          /\ impl' = Advance(impl, resp, d)
          /\ direct' = Advance(direct, resp, d)
          /\ twin' = Advance(twin, resp, d)
    /\ UNCHANGED <<build, phase, call, invocations, ret, calls, script, session>>

Finished == impl.pc = "done" /\ direct.pc = "done" /\ twin.pc = "done"

\* T's method returns to the caller that invoked it directly
Return ==
    /\ phase = "busy"
    /\ script = NoScript
    /\ call.via = "direct"
    /\ Finished
    /\ ret' = [result |-> impl.result, buffer |-> impl.buffer]
    /\ phase' = "returned"
    /\ UNCHANGED <<build, call, invocations, impl, direct, twin, calls, script, session>>

\* a failed call on T made once more before the caller hears of it
RefReturn_Retry ==
    /\ phase = "busy"
    /\ call.via = "borrow"
    /\ Finished
    /\ IF impl.result # "Ok" /\ Len(invocations) < 2
       THEN /\ invocations' = Append(invocations, invocations[1])
            /\ impl' = Enter(call.op, call.address, call.bytes, call.len)
            /\ UNCHANGED <<phase, ret>>
       ELSE /\ ret' = [result |-> impl.result, buffer |-> impl.buffer]
            /\ phase' = "returned"
            /\ UNCHANGED <<invocations, impl>>
    /\ UNCHANGED <<build, call, direct, twin, calls, script, session>>

\* the forwarding method's body is the call on T: its value is the value
\* the method returns, and the buffer is the caller's own
RefReturn ==
    /\ phase = "busy"
    /\ call.via = "borrow"
    /\ Finished
    /\ ret' = [result |-> impl.result, buffer |-> impl.buffer]
    /\ phase' = "returned"
    /\ UNCHANGED <<build, call, invocations, impl, direct, twin, calls, script, session>>

\* the call is over: the borrows of the bus handle and of the buffer end, and
\* nothing of the call outlives it
Release ==
    /\ phase = "returned"
    /\ script = NoScript
    /\ phase' = "idle"
    /\ call' = NoCall
    /\ invocations' = <<>>
    /\ impl' = Idle
    /\ direct' = Idle
    /\ twin' = Idle
    /\ ret' = NoRet
    /\ UNCHANGED <<build, calls, script, session>>

Init ==
    /\ build \in Builds
    /\ phase = "idle"
    /\ call = NoCall
    /\ invocations = <<>>
    /\ impl = Idle
    /\ direct = Idle
    /\ twin = Idle
    /\ ret = NoRet
    /\ calls = 0
    /\ script = NoScript
    /\ session = <<>>

\* the caller is between calls
Ready == phase = "idle" /\ script = NoScript

Next ==
    \/ Ready /\ \E a \in Addresses, len \in BufferLens : CallDirect("Read", a, <<>>, len)
    \/ Ready /\ \E a \in Addresses, bytes \in Payloads : CallDirect("Write", a, bytes, 0)
    \/ Ready /\ \E a \in Addresses, bytes \in Payloads : CallDirect("WriteIter", a, bytes, 0)
    \/ Ready /\ \E a \in Addresses, bytes \in Payloads, len \in BufferLens :
          CallDirect("WriteRead", a, bytes, len)
    \/ Ready /\ \E a \in Addresses, bytes \in Payloads, len \in BufferLens :
          CallDirect("WriteIterRead", a, bytes, len)
    \/ Ready /\ \E a \in Addresses, len \in BufferLens : RefRead(a, len)
    \/ Ready /\ \E a \in Addresses, bytes \in Payloads : RefWrite(a, bytes)
    \/ Ready /\ \E a \in Addresses, bytes \in Payloads : RefWriteIter(a, bytes)
    \/ Ready /\ \E a \in Addresses, bytes \in Payloads, len \in BufferLens :
          RefWriteRead(a, bytes, len)
    \/ Ready /\ \E a \in Addresses, bytes \in Payloads, len \in BufferLens :
          RefWriteIterRead(a, bytes, len)
    \/ Step
    \/ Return
    \/ RefReturn
    \/ Release

Spec == Init /\ [][Next]_vars

-----------------------------------------------------------------------------
(* A driver that talks to one device: either write(a, bytes) and then,      *)
(* separately, read(a, buf), or the single write_read(a, bytes, buf).       *)

Scripts ==
    [variant : {"separate", "combined"}, address : Addresses, bytes : Payloads,
     len : BufferLens]

\* the driver calls T's method `op`
Drive(op, address, bytes, len) ==
    /\ phase' = "busy"
    /\ call' = [op |-> op, via |-> "direct", address |-> address, bytes |-> bytes,
                len |-> len]
    /\ invocations' = <<Args(op, address, bytes, len)>>
    /\ impl' = Enter(op, address, bytes, len)
    /\ direct' = Enter(op, address, bytes, len)
    /\ twin' = Idle
    /\ ret' = NoRet
    /\ UNCHANGED <<build, calls, script, session>>

ScnWrite ==
    /\ script.variant = "separate"
    /\ phase = "idle"
    /\ calls = 0
    /\ Drive("Write", script.address, script.bytes, 0)

\* the read follows a write that succeeded
ScnRead ==
    /\ script.variant = "separate"
    /\ phase = "returned"
    /\ calls = 1
    /\ ret.result = "Ok"
    /\ Drive("Read", script.address, <<>>, script.len)

ScnWriteRead ==
    /\ script.variant = "combined"
    /\ phase = "idle"
    /\ calls = 0
    /\ Drive("WriteRead", script.address, script.bytes, script.len)

\* the call returns; what it put on the bus is now part of the session
ScnReturn ==
    /\ script # NoScript
    /\ phase = "busy"
    /\ Finished
    /\ ret' = [result |-> impl.result, buffer |-> impl.buffer]
    /\ session' = session \o impl.trace
    /\ calls' = calls + 1
    /\ phase' = "returned"
    /\ UNCHANGED <<build, call, invocations, impl, direct, twin, script>>

InitScenario ==
    /\ build \in Builds
    /\ phase = "idle"
    /\ call = NoCall
    /\ invocations = <<>>
    /\ impl = Idle
    /\ direct = Idle
    /\ twin = Idle
    /\ ret = NoRet
    /\ calls = 0
    /\ script \in Scripts
    /\ session = <<>>

NextScenario ==
    \/ ScnWrite
    \/ ScnRead
    \/ ScnWriteRead
    \/ Step
    \/ ScnReturn

SpecScenario == InitScenario /\ [][NextScenario]_vars

-----------------------------------------------------------------------------
(* Reading a trace *)

Count(t, e) == Cardinality({k \in 1 .. Len(t) : t[k] = e})
IsKind(e, kind) == e[1] = kind
\* the data bytes of one kind ("O" outgoing, "I" incoming), in bus order
Data(t, kind) ==
    LET sel == SelectSeq(t, LAMBDA e : IsKind(e, kind))
    IN  [k \in 1 .. Len(sel) |-> sel[k][2]]
NumKind(t, kind) == Cardinality({k \in 1 .. Len(t) : IsKind(t[k], kind)})
Errors == {"AddressNack", "DataNack", "BusFault"}
Valid7Bit(a) == a \in 0 .. 127

-----------------------------------------------------------------------------
(* The claims *)

\* C1: a call made through `&mut T` puts the same events on the bus, leaves
\* the same buffer and gives the same result or error as the same call made
\* on T itself, at every point of the call and whatever the capability, the
\* address, the outgoing bytes and the buffer length.
C1_ReferenceForwardingLaw ==
    call.via = "borrow" =>
        /\ impl.trace = direct.trace
        /\ impl.buffer = direct.buffer
        /\ impl.result = direct.result
        /\ phase = "returned" =>
              ret = [result |-> direct.result, buffer |-> direct.buffer]

C1_Witness ==
    /\ call.via = "borrow"
    /\ call.op = "Read"
    /\ call.address = 200
    /\ call.len = MaxBuffer
    /\ phase = "returned"
    /\ ret.result = "Ok"

\* C2: every capability whose trait exists in the build has a forwarding
\* implementation for `&mut T` in that build.
C2_EveryCapabilityForwards ==
    \A c \in Capabilities : TraitExists(c) => RefImplExists(c)

\* C3: in the trace of a write_read the read phase is entered by a repeated
\* start only: SAD+R for the same address comes right after SR, which comes
\* right after the acknowledge that ends the write phase; no second ST opens
\* another transaction, and SP is the last event, after every incoming byte.
C3_WriteReadAtomic ==
    impl.op = "WriteRead" =>
        LET t == impl.trace
        IN  /\ \A k \in 1 .. Len(t) :
                  IsKind(t[k], "SAD+R") =>
                      /\ k > 4
                      /\ t[k] = SADR(call.address)
                      /\ t[k - 1] = SR
                      /\ t[k - 2] = SAK
                      /\ Data(SubSeq(t, 1, k), "O") = call.bytes
            /\ \A k \in 1 .. Len(t) :
                  t[k] = SP =>
                      /\ k = Len(t)
                      /\ Count(t, SR) = 1
                      /\ NumKind(t, "I") = call.len
                      /\ t[k - 1] = IF call.len = 0 THEN SAK ELSE NMAK
            /\ \A k \in 2 .. Len(t) : t[k] # ST
            /\ Count(t, SR) <= 1

C3_Witness ==
    /\ impl.op = "WriteRead"
    /\ impl.result = "Ok"
    /\ Len(call.bytes) = MaxBytes
    /\ call.len = MaxBuffer

\* C4: a write followed by a separate read is two transactions, each with
\* its own ST and SP and no SR; one write_read is one ST, one SR, one SP.
\* Two stop conditions against one tell the two apart.
C4_SeparateVersusCombined ==
    /\ (script.variant = "separate" /\ phase = "returned" /\ ret.result = "Ok" /\ calls = 1) =>
          /\ Count(session, ST) = 1 /\ Count(session, SP) = 1 /\ Count(session, SR) = 0
          /\ session[1] = ST /\ session[2] = SADW(script.address)
          /\ session[Len(session)] = SP
    /\ (script.variant = "separate" /\ phase = "returned" /\ ret.result = "Ok" /\ calls = 2) =>
          /\ Count(session, ST) = 2 /\ Count(session, SP) = 2 /\ Count(session, SR) = 0
          /\ session[1] = ST /\ session[2] = SADW(script.address)
          /\ session[Len(session)] = SP
          /\ \E k \in 1 .. Len(session) - 2 :
                /\ session[k] = SP
                /\ session[k + 1] = ST
                /\ session[k + 2] = SADR(script.address)
    /\ (script.variant = "combined" /\ phase = "returned" /\ ret.result = "Ok") =>
          /\ Count(session, ST) = 1 /\ Count(session, SR) = 1 /\ Count(session, SP) = 1
          /\ session[1] = ST /\ session[Len(session)] = SP

C4_Witness ==
    /\ script.variant = "separate"
    /\ script.address = 80
    /\ script.bytes = <<160, 1>>
    /\ script.len = 2
    /\ calls = 2
    /\ ret.result = "Ok"

\* C5: a read at a 7-bit address ends in success or in an error; on success
\* every position of the buffer holds the byte the slave sent for it, in the
\* order sent, and success is never reported with fewer than L bytes received.
C5_ReadAllOrNothing ==
    (impl.op = "Read" /\ Valid7Bit(call.address)) =>
        /\ impl.pc = "done" => impl.result \in {"Ok"} \cup Errors
        /\ impl.result = "Ok" =>
              /\ NumKind(impl.trace, "I") = call.len
              /\ Len(impl.buffer) = call.len
              /\ impl.buffer = Data(impl.trace, "I")
        /\ (phase = "returned" /\ ret.result = "Ok") =>
              ret.buffer = Data(impl.trace, "I") /\ Len(ret.buffer) = call.len

C5_Witness ==
    /\ impl.op = "Read"
    /\ Valid7Bit(call.address)
    /\ phase = "returned"
    /\ ret.result = "Ok"
    /\ call.len = MaxBuffer
    /\ ret.buffer[1] # ret.buffer[2]

\* C6: a write at a 7-bit address that succeeds has sent ST, SAD+W, then
\* exactly the given bytes in the given order, each followed by SAK, then SP;
\* a trace with a missing acknowledge never ends in success.
C6_WriteSendsAllAcknowledged ==
    (impl.op = "Write" /\ Valid7Bit(call.address)) =>
        LET t == impl.trace
        IN  /\ impl.result = "Ok" =>
                  /\ Len(t) = 4 + 2 * Len(call.bytes)
                  /\ t[1] = ST /\ t[2] = SADW(call.address) /\ t[3] = SAK
                  /\ Data(t, "O") = call.bytes
                  /\ \A k \in 1 .. Len(t) : IsKind(t[k], "O") => (k > 3 /\ t[k + 1] = SAK)
                  /\ t[Len(t)] = SP /\ Count(t, SP) = 1
            /\ Count(t, NSAK) > 0 => impl.result \in Errors

C6_Witness ==
    /\ impl.op = "Write"
    /\ Valid7Bit(call.address)
    /\ impl.result = "Ok"
    /\ Len(call.bytes) = MaxBytes
    /\ call.bytes[1] # call.bytes[2]

\* C7: an iterator call and its buffer counterpart given the same bytes put
\* the same events on the bus, fill the buffer alike and end alike; the
\* iterator yields its items in order, each once, and is empty before SP
\* (WriteIter) or SR (WriteIterRead).
C7_IteratorEquivalence ==
    impl.op \in IterCapabilities =>
        /\ impl.trace = twin.trace
        /\ impl.buffer = twin.buffer
        /\ impl.result = twin.result
        /\ impl.pulled \o impl.iter = call.bytes
        /\ Data(impl.trace, "O") = impl.pulled
        /\ (Count(impl.trace, SP) > 0 \/ Count(impl.trace, SR) > 0) =>
              impl.iter = <<>> /\ impl.pulled = call.bytes

C7_Witness ==
    /\ impl.op = "WriteIterRead"
    /\ impl.result = "Ok"
    /\ Len(call.bytes) = MaxBytes
    /\ call.len = MaxBuffer

\* C8: a read into an empty buffer and a write of no bytes are carried out,
\* not refused: on success the trace is ST, the address byte, SAK, SP, and at
\* no point does it hold a data byte or a master acknowledge; the only
\* failures are the slave's missing acknowledge and a bus fault.
C8_ZeroLength ==
    /\ (impl.op = "Read" /\ call.len = 0) =>
          /\ impl.result = "Ok" => impl.trace = <<ST, SADR(call.address), SAK, SP>>
          /\ NumKind(impl.trace, "I") = 0
          /\ Count(impl.trace, MAK) = 0 /\ Count(impl.trace, NMAK) = 0
          /\ impl.pc = "done" => impl.result \in {"Ok", "AddressNack", "BusFault"}
    /\ (impl.op = "Write" /\ call.bytes = <<>>) =>
          /\ impl.result = "Ok" => impl.trace = <<ST, SADW(call.address), SAK, SP>>
          /\ NumKind(impl.trace, "O") = 0
          /\ Count(impl.trace, MAK) = 0 /\ Count(impl.trace, NMAK) = 0
          /\ impl.pc = "done" => impl.result \in {"Ok", "AddressNack", "BusFault"}

C8_Witness ==
    /\ impl.op = "Read"
    /\ call.len = 0
    /\ impl.result = "Ok"

\* C9: in the read phase of read and of write_read the master answers each
\* of the first L-1 bytes with MAK and the L-th with NMAK; NMAK is sent once
\* at most and never before the last byte, and SP follows it.
C9_MasterAckOrdering ==
    impl.op \in {"Read", "WriteRead"} =>
        LET t == impl.trace
        IN  /\ \A k \in 1 .. Len(t) :
                  (IsKind(t[k], "I") /\ k < Len(t)) =>
                      t[k + 1] = IF NumKind(SubSeq(t, 1, k), "I") < call.len
                                 THEN MAK ELSE NMAK
            /\ \A k \in 1 .. Len(t) :
                  t[k] = NMAK =>
                      /\ IsKind(t[k - 1], "I")
                      /\ NumKind(SubSeq(t, 1, k), "I") = call.len
            /\ \A k \in 1 .. Len(t) : t[k] = MAK => IsKind(t[k - 1], "I")
            /\ Count(t, NMAK) <= 1
            /\ (impl.result = "Ok" /\ call.len >= 1) =>
                  /\ Count(t, NMAK) = 1
                  /\ Count(t, MAK) = call.len - 1
                  /\ t[Len(t) - 1] = NMAK
                  /\ t[Len(t)] = SP

C9_Witness ==
    /\ impl.op = "WriteRead"
    /\ impl.result = "Ok"
    /\ call.len = MaxBuffer
    /\ call.len >= 2

\* C10: read, write and write_read on `&mut T` enter T's method once, with
\* the address, the bytes and the buffer length the caller gave, in range or
\* not; what T returns, error or not, is what the caller gets, and T is not
\* entered again.
C10_NoRetryNoMasking ==
    (call.via = "borrow" /\ call.op \in {"Read", "Write", "WriteRead"}) =>
        /\ invocations = <<Args(call.op, call.address, call.bytes, call.len)>>
        /\ phase = "returned" =>
              ret = [result |-> impl.result, buffer |-> impl.buffer]

C10_Witness ==
    /\ call.via = "borrow"
    /\ call.op = "WriteRead"
    /\ call.address = 200
    /\ phase = "returned"
    /\ ret.result = "DataNack"
    /\ Len(invocations) = 1

====
